---- MODULE Spec2Model ----
(***************************************************************************)
(* Survivor pool manager (src/survivor_app.py).                            *)
(*                                                                         *)
(* The pool worksheet is modelled as gspread sees it: a grid of cells, row *)
(* 1 holding the headers.  Every cell, team name, e-mail, password and     *)
(* digest is a string, modelled as a sequence of one-character strings so  *)
(* that lower(), strip(), substring tests and the regular-expression       *)
(* search of Series.str.contains are computed, not assumed.                *)
(* Each action is one Streamlit script run (one user interaction).         *)
(***************************************************************************)
EXTENDS Integers, Sequences, FiniteSets, TLC

VARIABLES
    feed,          \* events the score feed answers with right now
    feedOk,        \* FALSE: the request or its parsing raises
    scores_cache,  \* st.cache_data of get_sports_data, keyed by week_num
    sheet,         \* the pool worksheet, a grid of cells (<<>>: no worksheet)
    data_cache,    \* st.cache_data of load_data (ttl=5)
    config,        \* Config!B2, or NoConfig while the Config worksheet is missing
    current_user,  \* st.session_state.current_user, or NoUser
    ui             \* what the last script run rendered / returned

vars == <<feed, feedOk, scores_cache, sheet, data_cache, config, current_user, ui>>

----------------------------------------------------------------------------
(* Bounds *)

MaxScore == 1
MaxPlayers == 2

----------------------------------------------------------------------------
(* Strings *)

ToLower ==
    [A |-> "a", B |-> "b", C |-> "c", D |-> "d", E |-> "e", F |-> "f",
     G |-> "g", H |-> "h", I |-> "i", J |-> "j", K |-> "k", L |-> "l",
     M |-> "m", N |-> "n", O |-> "o", P |-> "p", Q |-> "q", R |-> "r",
     S |-> "s", T |-> "t", U |-> "u", V |-> "v", W |-> "w", X |-> "x",
     Y |-> "y", Z |-> "z"]

LowerChar(c) == IF c \in DOMAIN ToLower THEN ToLower[c] ELSE c

\* str.lower()
Lower(s) == [i \in DOMAIN s |-> LowerChar(s[i])]

RECURSIVE LStrip(_)
LStrip(s) == IF s # <<>> /\ Head(s) = " " THEN LStrip(Tail(s)) ELSE s

RECURSIVE RStrip(_)
RStrip(s) ==
    IF s # <<>> /\ s[Len(s)] = " " THEN RStrip(SubSeq(s, 1, Len(s) - 1)) ELSE s

\* str.strip()
Strip(s) == RStrip(LStrip(s))

\* a in b  (Python substring test)
IsSubstring(a, b) ==
    \E k \in 0..(Len(b) - Len(a)) :
        \A i \in 1..Len(a) : b[k + i] = a[i]

\* Series.str.contains(pat, case=False) searches pat as a regular expression.
\* Of the regular-expression syntax the model keeps what the names in play
\* hold: "(" and ")" group (always paired in these names), "." matches any
\* character, every other character matches itself (ignoring case).
RECURSIVE RegexAtoms(_)
RegexAtoms(pat) ==
    IF pat = <<>> THEN <<>>
    ELSE IF Head(pat) \in {"(", ")"} THEN RegexAtoms(Tail(pat))
    ELSE <<Head(pat)>> \o RegexAtoms(Tail(pat))

AtomMatches(a, c) == a = "." \/ LowerChar(a) = LowerChar(c)

\* re.search(pat, text, re.IGNORECASE) is not None
RegexSearch(pat, text) ==
    LET atoms == RegexAtoms(pat)
    IN  \E k \in 0..(Len(text) - Len(atoms)) :
            \A i \in 1..Len(atoms) : AtomMatches(atoms[i], text[k + i])

----------------------------------------------------------------------------
(* Literals *)

Empty == <<>>
TBD == <<"T", "B", "D">>
Tie == <<"T", "i", "e">>
Bye == <<"B", "y", "e">>
Alive == <<"A", "l", "i", "v", "e">>
Eliminated == <<"E", "l", "i", "m", "i", "n", "a", "t", "e", "d">>
StrTrue == <<"T", "r", "u", "e">>
StrFalse == <<"F", "a", "l", "s", "e">>

Duke == <<"D", "u", "k", "e">>
UNC == <<"U", "N", "C">>
Kansas == <<"K", "a", "n", "s", "a", "s">>
Kentucky == <<"K", "e", "n", "t", "u", "c", "k", "y">>
UConn == <<"U", "C", "o", "n", "n">>
Gonzaga == <<"G", "o", "n", "z", "a", "g", "a">>
KansasSt == <<"K", "a", "n", "s", "a", "s", " ", "S", "t", ".">>
MiamiOH == <<"M", "i", "a", "m", "i", " ", "(", "O", "H", ")">>

\* the sidebar's pool selection; the model follows the NCAA pool
pool_type == "March Madness (NCAA)"

\* A cache entry, and session_state.current_user: <<>> when absent, <<v>> when set
NoData == <<>>
NoUser == <<>>
\* week_num when the label holds no digits, and the admin view's week_num
NoWeek == <<>>
\* the Config worksheet is missing
NoConfig == [exists |-> FALSE, B2 |-> <<>>]
ConfigB2(v) == [exists |-> TRUE, B2 |-> v]

----------------------------------------------------------------------------
(* Score feed and get_sports_data *)

\* display names the feed can answer with
FeedTeams == {Duke, Kansas, KansasSt, MiamiOH}

Event(t0, t1) ==
    [team_0 |-> t0, score_0 |-> 0, team_1 |-> t1, score_1 |-> 0,
     state |-> "pre", description |-> "Scheduled"]

Matchups == {Event(p[1], p[2]) : p \in {t \in FeedTeams \X FeedTeams : t[1] # t[2]}}

\* a slip: the first side wins on equal scores
GameRecordGe(event) ==
    LET winner ==
            IF event.state = "post"
            THEN IF event.score_0 >= event.score_1 THEN event.team_0
                 ELSE IF event.score_1 > event.score_0 THEN event.team_1
                 ELSE Tie
            ELSE TBD
    IN  [TeamA |-> event.team_0, TeamB |-> event.team_1, Winner |-> winner,
         Status |-> event.description,
         Score |-> <<event.score_0, event.score_1>>,
         Locked |-> event.state \in {"in", "post"}]

\* One event of the feed, normalised (the loop body of get_sports_data)
GameRecord(event) ==
    LET winner ==
            IF event.state = "post"
            THEN IF event.score_0 > event.score_1 THEN event.team_0
                 ELSE IF event.score_1 > event.score_0 THEN event.team_1
                 ELSE Tie
            ELSE TBD
    IN  [TeamA |-> event.team_0, TeamB |-> event.team_1, Winner |-> winner,
         Status |-> event.description,
         Score |-> <<event.score_0, event.score_1>>,
         Locked |-> event.state \in {"in", "post"}]

FallbackTeams ==
    IF pool_type = "NFL Survivor" THEN <<>>
    ELSE <<Duke, UNC, Kansas, Kentucky, UConn, Gonzaga>>

dummy_games ==
    [i \in DOMAIN FallbackTeams |->
        [TeamA |-> FallbackTeams[i], TeamB |-> Bye, Winner |-> TBD,
         Status |-> "Scheduled", Score |-> <<0, 0>>, Locked |-> FALSE]]

\* The body of get_sports_data (a cache miss)
get_sports_data(events, ok) ==
    LET games == [i \in DOMAIN events |-> GameRecord(events[i])]
    IN  IF ok /\ games # <<>> THEN games ELSE dummy_games

----------------------------------------------------------------------------
(* The pool worksheet *)

ColName == <<"N", "a", "m", "e">>
ColEmail == <<"E", "m", "a", "i", "l">>
ColHash == <<"S", "e", "c", "u", "r", "i", "t", "y", "_", "H", "a", "s", "h">>
ColStatus == <<"S", "t", "a", "t", "u", "s">>
Week1 == <<"W", "e", "e", "k", " ", "1">>
Week2 == <<"W", "e", "e", "k", " ", "2">>

\* Admin "Create Tab": the header row (the source writes Week 1..18)
headers == <<ColName, ColEmail, ColHash, ColStatus, Week1, Week2>>

\* [c for c in df.columns if "Week" in c or "Round" in c]
IsPickCol(c) ==
    \/ IsSubstring(<<"W", "e", "e", "k">>, c)
    \/ IsSubstring(<<"R", "o", "u", "n", "d">>, c)

\* re.search(r'\d+', selected_week).group(), or None
week_num(c) ==
    LET digits == {"0", "1", "2", "3", "4", "5", "6", "7", "8", "9"}
        at == {i \in DOMAIN c : c[i] \in digits}
    IN  IF at = {} THEN NoWeek
        ELSE LET first == CHOOSE i \in at : \A j \in at : i <= j
                 last == CHOOSE i \in at :
                            /\ i >= first
                            /\ \A j \in first..i : j \in at
                            /\ (i + 1) \notin at
             IN  SubSeq(c, first, last)

\* worksheet.get_all_records() as a DataFrame: the rows under the header row
Records(grid) == IF grid = <<>> THEN <<>> ELSE Tail(grid)

Columns(grid) == IF Records(grid) = <<>> THEN <<>> ELSE Head(grid)

HasCol(grid, c) == \E i \in DOMAIN Columns(grid) : Columns(grid)[i] = c

ColIdx(grid, c) ==
    CHOOSE i \in DOMAIN Columns(grid) : Columns(grid)[i] = c

Cell(grid, row, c) == row[ColIdx(grid, c)]

pick_cols(grid) ==
    LET cs == Columns(grid)
        idx == {i \in DOMAIN cs : IsPickCol(cs[i])}
    IN  IF idx = {} THEN {Week1} ELSE {cs[i] : i \in idx}

\* next(c for c in df.columns if "Week" in c or "Round" in c), or None
first_pick_col(grid) ==
    LET cs == Columns(grid)
        idx == {i \in DOMAIN cs : IsPickCol(cs[i])}
    IN  IF idx = {} THEN NoWeek
        ELSE cs[CHOOSE i \in idx : \A j \in idx : i <= j]

\* ws.find(query): the first cell, rows first, holding query; <<0, 0>> is None
Find(grid, query) ==
    LET hits == {rc \in (DOMAIN grid) \X (1..Len(headers)) :
                    /\ rc[2] \in DOMAIN grid[rc[1]]
                    /\ grid[rc[1]][rc[2]] = query}
    IN  IF hits = {} THEN <<0, 0>>
        ELSE CHOOSE rc \in hits :
                \A o \in hits : rc[1] < o[1] \/ (rc[1] = o[1] /\ rc[2] <= o[2])

\* ws.update_cell(row, col, value)
UpdateCell(grid, r, c, v) == [grid EXCEPT ![r][c] = v]

\* ws.append_row(values): a new last row, the cells right of values empty
AppendRow(grid, values) ==
    Append(grid, [i \in 1..Len(headers) |->
                    IF i \in DOMAIN values THEN values[i] ELSE Empty])

----------------------------------------------------------------------------
(* Credentials *)

\* hashlib.sha256(password).hexdigest(): one digest per password
make_hashes(password) == <<"#">> \o password

\* a slip: the typed password compared with the stored digest as it is
check_hashes_plain(password, hashed_text) == password = hashed_text

check_hashes(password, hashed_text) == make_hashes(password) = hashed_text

----------------------------------------------------------------------------
(* Player Portal: eligibility, breakdown, standings *)

\* row.get(col, "")
PickOf(grid, row, col) == IF HasCol(grid, col) THEN Cell(grid, row, col) ELSE Empty

\* df[df['Name'] == user]: the data rows whose Name is user, in sheet order
RowsNamed(grid, user) ==
    {i \in DOMAIN Records(grid) : Cell(grid, Records(grid)[i], ColName) = user}

\* .iloc[0] of the above
user_row(grid, user) ==
    Records(grid)[CHOOSE i \in RowsNamed(grid, user) :
                    \A j \in RowsNamed(grid, user) : i <= j]

past_picks(grid, row, selected_week) ==
    {Cell(grid, row, c) : c \in {d \in pick_cols(grid) :
                                    d # selected_week /\ Cell(grid, row, d) # Empty}}

\* the loop over teams_playing; the select box shows sorted(list(set(...)))
available_teams(games, past) ==
    {games[i].TeamA : i \in {j \in DOMAIN games :
        ~games[j].Locked /\ games[j].TeamA \notin past}}
    \cup
    {games[i].TeamB : i \in {j \in DOMAIN games :
        ~games[j].Locked /\ games[j].TeamB \notin past /\ games[j].TeamB # Bye}}

\* Calculated_Status of one row's pick (the loop body, both views)
Calculated_Status(cell, games) ==
    LET pick == Strip(cell)
        match == {i \in DOMAIN games :
                    \/ RegexSearch(pick, games[i].TeamA)
                    \/ RegexSearch(pick, games[i].TeamB)}
    IN  IF match = {} THEN "Unknown"
        ELSE LET game == games[CHOOSE i \in match : \A j \in match : i <= j]
             IN  IF game.Status = "Final"
                 THEN IF IsSubstring(Lower(pick), Lower(game.Winner)) THEN "SAFE"
                      ELSE IF game.Winner = Tie THEN "TIE"
                      ELSE "ELIMINATED"
                 ELSE "Pending"

statuses(grid, col, games) ==
    IF games = <<>> THEN <<>>
    ELSE [i \in DOMAIN Records(grid) |->
            Calculated_Status(PickOf(grid, Records(grid)[i], col), games)]

\* the rows whose Status is 'Alive'
alive_df(grid) ==
    {i \in DOMAIN Records(grid) : Cell(grid, Records(grid)[i], ColStatus) = Alive}

\* a slip: every player counted, not only the Alive ones
BreakdownAll(grid, selected_week) ==
    IF ~HasCol(grid, ColStatus) \/ alive_df(grid) = {} THEN {}
    ELSE LET val(i) == Cell(grid, Records(grid)[i], selected_week)
             values == {val(i) : i \in DOMAIN Records(grid)}
         IN  {<<v, Cardinality({i \in DOMAIN Records(grid) : val(i) = v})>> :
                v \in values \ {Empty}}

\* alive_df[selected_week].value_counts(), the "" row removed: (Team, Count) pairs
Breakdown(grid, selected_week) ==
    IF ~HasCol(grid, ColStatus) \/ alive_df(grid) = {} THEN {}
    ELSE LET val(i) == Cell(grid, Records(grid)[i], selected_week)
             values == {val(i) : i \in alive_df(grid)}
         IN  {<<v, Cardinality({i \in alive_df(grid) : val(i) = v})>> :
                v \in values \ {Empty}}

\* df.drop(columns=[...], errors='ignore'): the rows without those columns
Drop(grid, dropped) ==
    LET keep == {i \in DOMAIN Columns(grid) : Columns(grid)[i] \notin dropped}
    IN  [r \in DOMAIN Records(grid) |->
            [c \in keep |-> Records(grid)[r][c]]]

NoPage ==
    [view |-> "none", week |-> Empty, options |-> {}, readable |-> TRUE,
     hidden |-> FALSE, breakdown |-> {}, board |-> <<>>, calculated |-> <<>>]

\* st.warning("Picks Hidden"): what the portal shows below the pick form
HiddenBoard == [hidden |-> TRUE, breakdown |-> {}, board |-> <<>>, calculated |-> <<>>]

\* ensure_config_sheet: the Config worksheet after the call
ensure_config_sheet(cfg) == IF cfg.exists THEN cfg ELSE ConfigB2(StrFalse)

\* get_reveal_status; readable = FALSE: the read raises
get_reveal_status(cfg, readable) ==
    IF readable THEN Lower(ensure_config_sheet(cfg).B2) = <<"t", "r", "u", "e">>
    ELSE FALSE

\* load_data through its cache
load_data(grid, dc) == IF dc = NoData THEN grid ELSE dc[1]

\* get_sports_data through its cache
cached_scores(sc, wk) ==
    IF sc[wk] = NoData THEN get_sports_data(feed, feedOk) ELSE sc[wk][1]

\* a slip: the board shown whatever the visibility read
StandingsShown(df, selected_week, games, cfg, readable) ==
    [hidden |-> FALSE,
     breakdown |-> Breakdown(df, selected_week),
     board |-> Drop(df, {ColHash, ColEmail}),
     calculated |-> statuses(df, selected_week, games)]

\* The logged-in branch of the Player Portal from the pick form's end on:
\* the visibility check and what is shown under it
Standings(df, selected_week, games, cfg, readable) ==
    IF get_reveal_status(cfg, readable)
    THEN [hidden |-> FALSE,
          breakdown |-> Breakdown(df, selected_week),
          board |-> Drop(df, {ColHash, ColEmail}),
          calculated |-> statuses(df, selected_week, games)]
    ELSE HiddenBoard

----------------------------------------------------------------------------
(* Storage writes *)

\* a slip: the new e-mail compared as typed with the cleaned stored ones
register_user_raw(grid, name, email, password) ==
    IF grid = <<>> THEN <<FALSE, "WorksheetNotFound", grid>>
    ELSE LET existing_emails ==
                {Strip(Lower(Cell(grid, Records(grid)[i], ColEmail))) :
                    i \in DOMAIN Records(grid)}
         IN  IF /\ Records(grid) # <<>>
                /\ HasCol(grid, ColEmail)
                /\ email \in existing_emails
             THEN <<FALSE, "Email already registered!", grid>>
             ELSE <<TRUE, "Success",
                    AppendRow(grid, <<name, email, make_hashes(password), Alive>>)>>

\* register_user: <<ok, message, worksheet afterwards>>
register_user(grid, name, email, password) ==
    IF grid = <<>> THEN <<FALSE, "WorksheetNotFound", grid>>
    ELSE LET existing_emails ==
                {Strip(Lower(Cell(grid, Records(grid)[i], ColEmail))) :
                    i \in DOMAIN Records(grid)}
         IN  IF /\ Records(grid) # <<>>
                /\ HasCol(grid, ColEmail)
                /\ Strip(Lower(email)) \in existing_emails
             THEN <<FALSE, "Email already registered!", grid>>
             ELSE <<TRUE, "Success",
                    AppendRow(grid, <<name, email, make_hashes(password), Alive>>)>>

\* save_pick_to_sheet: <<ok, worksheet afterwards>>
save_pick_to_sheet(grid, player_name, week_col, team_pick) ==
    LET cell == Find(grid, player_name)
        col == Find(grid, week_col)
    IN  IF cell = <<0, 0>> \/ col = <<0, 0>> THEN <<FALSE, grid>>
        ELSE <<TRUE, UpdateCell(grid, cell[1], col[2], team_pick)>>

----------------------------------------------------------------------------
(* Script runs *)

\* st.cache_data.clear(): both caches, every key
WeekKeys == {week_num(c) : c \in {headers[i] : i \in DOMAIN headers}} \cup {NoWeek}
ClearedScores == [k \in WeekKeys |-> NoData]

Shown(op, args, ok, message, page) ==
    [op |-> op, args |-> args, ok |-> ok, message |-> message, page |-> page]

\* The logged-in branch of the Player Portal with no button pressed:
\* caches and Config worksheet afterwards, and the page shown
PortalRun(grid, user, selected_week, dc, sc, cfg, readable) ==
    LET df == load_data(grid, dc)
        wk == week_num(selected_week)
        games == cached_scores(sc, wk)
        sc2 == [sc EXCEPT ![wk] = <<games>>]
    IN  IF Records(df) = <<>>
        THEN [dc |-> <<df>>, sc |-> sc, cfg |-> cfg,
              page |-> [NoPage EXCEPT !.view = "loading"]]
        ELSE IF RowsNamed(df, user) = {}
        THEN [dc |-> <<df>>, sc |-> sc2, cfg |-> cfg,
              page |-> [NoPage EXCEPT !.view = "exception", !.week = selected_week]]
        ELSE [dc |-> <<df>>, sc |-> sc2,
              cfg |-> IF readable THEN ensure_config_sheet(cfg) ELSE cfg,
              page |-> [view |-> "portal", week |-> selected_week,
                        readable |-> readable,
                        options |-> available_teams(games,
                            past_picks(df, user_row(df, user), selected_week))]
                       @@ Standings(df, selected_week, games, cfg, readable)]

\* The "Log In" button's branch: what it shows, or "" when it logs the user in
LoginMessage(df, email_input, password_input) ==
    IF Records(df) # <<>> /\ HasCol(df, ColEmail)
    THEN LET clean_input == Strip(Lower(email_input))
             hits == {i \in DOMAIN Records(df) :
                        Strip(Lower(Cell(df, Records(df)[i], ColEmail))) = clean_input}
         IN  IF hits # {}
             THEN LET row == Records(df)[CHOOSE i \in hits : \A j \in hits : i <= j]
                  IN  IF check_hashes(password_input, Cell(df, row, ColHash))
                      THEN ""
                      ELSE "Incorrect Password."
             ELSE "Email not found."
    ELSE "Pool is empty."

\* user_row['Name'] of the row a successful login found
LoginName(df, email_input) ==
    LET hits == {i \in DOMAIN Records(df) :
                    Strip(Lower(Cell(df, Records(df)[i], ColEmail)))
                        = Strip(Lower(email_input))}
    IN  Cell(df, Records(df)[CHOOSE i \in hits : \A j \in hits : i <= j], ColName)

----------------------------------------------------------------------------
(* Inputs typed into the forms *)

Ann == <<"A", "n", "n">>
Bob == <<"B", "o", "b">>
Names == {Ann, Bob}
Emails == {<<"a", "@", "x">>, <<" ", "A", "@", "x">>, <<"b", "@", "x">>}
Passwords == {<<"p">>, <<"q">>}

----------------------------------------------------------------------------
(* Player Portal, logged out *)

\* "Join Pool"
Register(n, e, p) ==
    /\ current_user = NoUser
    /\ Len(Records(sheet)) < MaxPlayers
    /\ IF n # Empty /\ e # Empty /\ p # Empty
       THEN LET r == register_user(sheet, n, e, p)
            IN  /\ sheet' = r[3]
                /\ IF r[1]
                   THEN /\ data_cache' = NoData
                        /\ scores_cache' = ClearedScores
                        /\ ui' = Shown("register", <<n, e, p>>, TRUE,
                                       "Registered! Please Log In.", NoPage)
                   ELSE /\ UNCHANGED <<data_cache, scores_cache>>
                        /\ ui' = Shown("register", <<n, e, p>>, FALSE,
                                       "Registration failed.", NoPage)
       ELSE /\ ui' = Shown("register", <<n, e, p>>, FALSE,
                           "Please fill all fields.", NoPage)
            /\ UNCHANGED <<sheet, data_cache, scores_cache>>
    /\ UNCHANGED <<feed, feedOk, config, current_user>>

\* "Log In"; on success st.rerun() renders the portal on its first week
Login(e, p, readable) ==
    /\ current_user = NoUser
    /\ LET df == sheet
           message == LoginMessage(df, e, p)
       IN  IF message = ""
           THEN LET user == LoginName(df, e)
                    run == PortalRun(sheet, user, first_pick_col(df), <<df>>,
                                     ClearedScores, config, readable)
                IN  /\ current_user' = <<user>>
                    /\ data_cache' = run.dc
                    /\ scores_cache' = run.sc
                    /\ config' = run.cfg
                    /\ ui' = Shown("login", <<e, p>>, TRUE, "", run.page)
           ELSE /\ data_cache' = <<df>>
                /\ scores_cache' = ClearedScores
                /\ ui' = Shown("login", <<e, p>>, FALSE, message, NoPage)
                /\ UNCHANGED <<current_user, config>>
    /\ UNCHANGED <<feed, feedOk, sheet>>

\* "Log Out"
Logout ==
    /\ current_user # NoUser
    /\ current_user' = NoUser
    /\ ui' = Shown("logout", <<>>, TRUE, "", NoPage)
    /\ UNCHANGED <<feed, feedOk, scores_cache, sheet, data_cache, config>>

----------------------------------------------------------------------------
(* Player Portal, logged in *)

\* Any interaction that only re-runs the script: choosing a week, a refresh
PortalView(w, readable) ==
    /\ current_user # NoUser
    /\ w \in pick_cols(load_data(sheet, data_cache))
    /\ LET run == PortalRun(sheet, current_user[1], w, data_cache, scores_cache,
                            config, readable)
       IN  /\ data_cache' = run.dc
           /\ scores_cache' = run.sc
           /\ config' = run.cfg
           /\ ui' = Shown("view", <<w>>, TRUE, "", run.page)
    /\ UNCHANGED <<feed, feedOk, sheet, current_user>>

\* "Lock In Pick" with pick_selection chosen among the options of this run;
\* a saved pick clears the caches and st.rerun() renders the portal again
SubmitPick(w, pick_selection, readable) ==
    /\ current_user # NoUser
    /\ LET df == load_data(sheet, data_cache)
           user == current_user[1]
           games == cached_scores(scores_cache, week_num(w))
           sc2 == [scores_cache EXCEPT ![week_num(w)] = <<games>>]
       IN  /\ Records(df) # <<>>
           /\ w \in pick_cols(df)
           /\ RowsNamed(df, user) # {}
           /\ pick_selection \in {Empty} \cup
                available_teams(games, past_picks(df, user_row(df, user), w))
           /\ IF pick_selection # Empty
              THEN LET saved == save_pick_to_sheet(sheet, user, w, pick_selection)
                   IN  IF saved[1]
                       THEN LET run == PortalRun(saved[2], user, w, NoData,
                                                 ClearedScores, config, readable)
                            IN  /\ sheet' = saved[2]
                                /\ data_cache' = run.dc
                                /\ scores_cache' = run.sc
                                /\ config' = run.cfg
                                /\ ui' = Shown("pick", <<w, pick_selection>>, TRUE,
                                               "Success!", run.page)
                       ELSE LET run == PortalRun(sheet, user, w, data_cache,
                                                 scores_cache, config, readable)
                            IN  /\ sheet' = sheet
                                /\ data_cache' = run.dc
                                /\ scores_cache' = run.sc
                                /\ config' = run.cfg
                                /\ ui' = Shown("pick", <<w, pick_selection>>, FALSE,
                                               "Error saving.", run.page)
              ELSE LET run == PortalRun(sheet, user, w, data_cache,
                                        scores_cache, config, readable)
                   IN  /\ sheet' = sheet
                       /\ data_cache' = run.dc
                       /\ scores_cache' = run.sc
                       /\ config' = run.cfg
                       /\ ui' = Shown("pick", <<w, pick_selection>>, FALSE,
                                      "Pick a team.", run.page)
    /\ UNCHANGED <<feed, feedOk, current_user>>

----------------------------------------------------------------------------
(* Admin Access, with the admin password *)

\* a slip: the Config worksheet is made sure of but B2 is not written
set_reveal_status_kept(cfg, new_status) == ensure_config_sheet(cfg)

\* set_reveal_status(new_status): the Config worksheet afterwards
set_reveal_status(cfg, new_status) == ConfigB2(new_status)

\* The admin dashboard with no button pressed
AdminRun(grid, dc, sc, cfg, readable) ==
    LET cfg2 == IF readable THEN ensure_config_sheet(cfg) ELSE cfg
        df == load_data(grid, dc)
        games == cached_scores(sc, NoWeek)
        pick_col == first_pick_col(df)
    IN  IF grid = <<>>
        THEN [dc |-> dc, sc |-> sc, cfg |-> cfg2,
              page |-> [NoPage EXCEPT !.view = "create tab"]]
        ELSE [dc |-> <<df>>, sc |-> [sc EXCEPT ![NoWeek] = <<games>>], cfg |-> cfg2,
              page |-> [view |-> "admin", week |-> pick_col, options |-> {},
                        readable |-> readable,
                        hidden |-> FALSE,
                        breakdown |-> {},
                        board |-> Drop(df, {ColHash}),
                        calculated |->
                            IF pick_col # NoWeek /\ Records(df) # <<>> /\ games # <<>>
                            THEN statuses(df, pick_col, games) ELSE <<>>]]

AdminView(readable) ==
    /\ LET run == AdminRun(sheet, data_cache, scores_cache, config, readable)
       IN  /\ data_cache' = run.dc
           /\ scores_cache' = run.sc
           /\ config' = run.cfg
           /\ ui' = Shown("admin", <<>>, TRUE, "", run.page)
    /\ UNCHANGED <<feed, feedOk, sheet, current_user>>

\* "Hide Picks" / "Reveal Picks": the button shown depends on the status read
ToggleReveal(readable) ==
    /\ LET is_revealed == get_reveal_status(config, readable)
           new_status == IF is_revealed THEN StrFalse ELSE StrTrue
           run == AdminRun(sheet, NoData, ClearedScores,
                           set_reveal_status(config, new_status), readable)
       IN  /\ data_cache' = run.dc
           /\ scores_cache' = run.sc
           /\ config' = run.cfg
           /\ ui' = Shown("toggle", <<new_status>>, TRUE, "", run.page)
    /\ UNCHANGED <<feed, feedOk, sheet, current_user>>

\* "Force Reload"
ForceReload(readable) ==
    /\ LET run == AdminRun(sheet, NoData, ClearedScores, config, readable)
       IN  /\ data_cache' = run.dc
           /\ scores_cache' = run.sc
           /\ config' = run.cfg
           /\ ui' = Shown("reload", <<>>, TRUE, "", run.page)
    /\ UNCHANGED <<feed, feedOk, sheet, current_user>>

\* "Create '<sheet>' Tab"
CreateTab(readable) ==
    /\ sheet = <<>>
    /\ LET run == AdminRun(<<headers>>, data_cache, scores_cache, config, readable)
       IN  /\ sheet' = <<headers>>
           /\ data_cache' = run.dc
           /\ scores_cache' = run.sc
           /\ config' = run.cfg
           /\ ui' = Shown("create", <<>>, TRUE, "", run.page)
    /\ UNCHANGED <<feed, feedOk, current_user>>

\* "Force Update Pick": player, column and team as the form of this run lists
\* them; the caches are not cleared before the rerun
ForceUpdate(p_name, p_week, p_team, readable) ==
    /\ sheet # <<>>
    /\ LET df == load_data(sheet, data_cache)
           games == cached_scores(scores_cache, NoWeek)
           first == AdminRun(sheet, data_cache, scores_cache, config, readable)
           cell == Find(sheet, p_name)
           col == Find(sheet, p_week)
       IN  /\ HasCol(df, ColName)
           /\ \E i \in DOMAIN Records(df) : Cell(df, Records(df)[i], ColName) = p_name
           /\ p_week \in pick_cols(df)
           /\ p_team \in {games[i].TeamA : i \in DOMAIN games}
                            \cup {games[i].TeamB : i \in DOMAIN games}
           /\ IF cell = <<0, 0>> \/ col = <<0, 0>>
              THEN /\ sheet' = sheet
                   /\ data_cache' = first.dc
                   /\ scores_cache' = first.sc
                   /\ config' = first.cfg
                   /\ ui' = Shown("force", <<p_name, p_week, p_team>>, FALSE,
                                  "Error finding cell.", first.page)
              ELSE LET grid == UpdateCell(sheet, cell[1], col[2], p_team)
                       run == AdminRun(grid, first.dc, first.sc, first.cfg, readable)
                   IN  /\ sheet' = grid
                       /\ data_cache' = run.dc
                       /\ scores_cache' = run.sc
                       /\ config' = run.cfg
                       /\ ui' = Shown("force", <<p_name, p_week, p_team>>, TRUE,
                                      "Updated!", run.page)
    /\ UNCHANGED <<feed, feedOk, current_user>>

----------------------------------------------------------------------------
(* The environment: the score feed, cache expiry *)

\* a game starts
FeedKickoff(i) ==
    /\ i \in DOMAIN feed
    /\ feed[i].state = "pre"
    /\ feed' = [feed EXCEPT ![i].state = "in", ![i].description = "In Progress"]
    /\ UNCHANGED <<feedOk, scores_cache, sheet, data_cache, config, current_user, ui>>

\* a side scores
FeedScore(i, side) ==
    /\ i \in DOMAIN feed
    /\ feed[i].state = "in"
    /\ IF side = 0
       THEN /\ feed[i].score_0 < MaxScore
            /\ feed' = [feed EXCEPT ![i].score_0 = @ + 1]
       ELSE /\ feed[i].score_1 < MaxScore
            /\ feed' = [feed EXCEPT ![i].score_1 = @ + 1]
    /\ UNCHANGED <<feedOk, scores_cache, sheet, data_cache, config, current_user, ui>>

\* a game ends
FeedFinal(i) ==
    /\ i \in DOMAIN feed
    /\ feed[i].state = "in"
    /\ feed' = [feed EXCEPT ![i].state = "post", ![i].description = "Final"]
    /\ UNCHANGED <<feedOk, scores_cache, sheet, data_cache, config, current_user, ui>>

\* a game is called off before it starts
FeedPostponed(i) ==
    /\ i \in DOMAIN feed
    /\ feed[i].state = "pre"
    /\ feed' = [feed EXCEPT ![i].state = "post", ![i].description = "Postponed"]
    /\ UNCHANGED <<feedOk, scores_cache, sheet, data_cache, config, current_user, ui>>

\* the feed becomes unreachable or malformed, or recovers
FeedOutage ==
    /\ feedOk' = ~feedOk
    /\ UNCHANGED <<feed, scores_cache, sheet, data_cache, config, current_user, ui>>

\* ttl=5 of load_data runs out
ExpireData ==
    /\ data_cache # NoData
    /\ data_cache' = NoData
    /\ UNCHANGED <<feed, feedOk, scores_cache, sheet, config, current_user, ui>>

\* ttl=300 of get_sports_data runs out for one key
ExpireScores(k) ==
    /\ scores_cache[k] # NoData
    /\ scores_cache' = [scores_cache EXCEPT ![k] = NoData]
    /\ UNCHANGED <<feed, feedOk, sheet, data_cache, config, current_user, ui>>

\* states the feed actions lead one event to: not started, just kicked off,
\* called off, and over with every score
EventStates(e) ==
    {e,
     [e EXCEPT !.state = "in", !.description = "In Progress"],
     [e EXCEPT !.state = "post", !.description = "Postponed"]}
    \cup {[e EXCEPT !.state = "post", !.description = "Final",
                    !.score_0 = a, !.score_1 = b] :
            a \in 0..MaxScore, b \in 0..MaxScore}

----------------------------------------------------------------------------
(* Initial states *)

BlankSheet == <<headers>>

\* the row register_user appended for a player, with the picks saved since
PlayerRow(name, email, password, status, pick1, pick2) ==
    <<name, email, make_hashes(password), status, pick1, pick2>>

AnnEmail == <<"a", "@", "x">>
BobEmail == <<"b", "@", "x">>

OneGame == {<<m>> : m \in Matchups}
TwoGames == {<<m, n>> : m, n \in Matchups}

\* team names pairwise distinct within the slate
DistinctTeams(events) ==
    Cardinality({events[i].team_0 : i \in DOMAIN events}
                \cup {events[i].team_1 : i \in DOMAIN events}) = 2 * Len(events)

\* states the feed actions lead a schedule to
RECURSIVE FeedStates(_)
FeedStates(events) ==
    IF events = <<>> THEN {<<>>}
    ELSE {<<h>> \o t : h \in EventStates(Head(events)),
                       t \in FeedStates(Tail(events))}

InitWith(feeds, sheets, configs, users) ==
    /\ feed \in feeds
    /\ feedOk = TRUE
    /\ scores_cache = ClearedScores
    /\ sheet \in sheets
    /\ data_cache = NoData
    /\ config \in configs
    /\ current_user \in users
    /\ ui = Shown("start", <<>>, TRUE, "", NoPage)

\* Registration and login on a freshly created pool tab
InitAuth == InitWith({<<Event(Duke, Kansas)>>}, {BlankSheet}, {NoConfig}, {NoUser})

NextAuth ==
    \/ \E n \in Names, e \in Emails, p \in Passwords \cup {Empty} : Register(n, e, p)
    \/ \E e \in Emails, p \in Passwords, readable \in BOOLEAN : Login(e, p, readable)
    \/ Logout

SpecAuth == InitAuth /\ [][NextAuth]_vars

----------------------------------------------------------------------------
(* Registration and login *)

Clean(email) == Strip(Lower(email))

RowEmail(i) == Cell(sheet, Records(sheet)[i], ColEmail)
RowName(i) == Cell(sheet, Records(sheet)[i], ColName)
RowHash(i) == Cell(sheet, Records(sheet)[i], ColHash)

EmailsDistinct(grid) ==
    \A i, j \in DOMAIN Records(grid) :
        i # j => Clean(Cell(grid, Records(grid)[i], ColEmail))
                    # Clean(Cell(grid, Records(grid)[j], ColEmail))

\* C6: after any sequence of register_user calls no two rows have e-mails that
\* are equal once lower-cased and trimmed, and a call whose e-mail equals an
\* existing row's under that comparison returns (False, "Email already
\* registered!") and leaves the worksheet as it was.
C6_EmailUniqueness ==
    [][/\ EmailsDistinct(sheet) => EmailsDistinct(sheet')
       /\ \A n \in Names, e \in Emails, p \in Passwords :
            (/\ ui'.op = "register"
             /\ ui'.args = <<n, e, p>>
             /\ \E i \in DOMAIN Records(sheet) : Clean(RowEmail(i)) = Clean(e))
            => /\ register_user(sheet, n, e, p)
                    = <<FALSE, "Email already registered!", sheet>>
               /\ ~ui'.ok
               /\ sheet' = sheet]_vars

\* C6 witness: a registration was refused for an e-mail that differs from the
\* stored one only by case and surrounding blanks
C6_Witness ==
    /\ ui.op = "register"
    /\ ~ui.ok
    /\ ui.message = "Registration failed."
    /\ \E i \in DOMAIN Records(sheet) :
        /\ RowEmail(i) # ui.args[2]
        /\ Clean(RowEmail(i)) = Clean(ui.args[2])

\* C7 (as claimed): no two players of the pool have the same name.
C7_NameUniqueness ==
    \A i, j \in DOMAIN Records(sheet) : i # j => RowName(i) # RowName(j)

\* C9: check_hashes(p, d) is true iff make_hashes(p) = d; after a successful
\* register_user(name, email, p) a login with that e-mail (compared lower-cased
\* and trimmed) succeeds with p and is refused with every password whose digest
\* differs from the stored Security_Hash.
C9_CredentialVerification ==
    /\ \A i \in DOMAIN Records(sheet), e \in Emails, p \in Passwords :
        Clean(e) = Clean(RowEmail(i)) =>
            /\ check_hashes(p, RowHash(i)) <=> (make_hashes(p) = RowHash(i))
            /\ (LoginMessage(sheet, e, p) = "") <=> (make_hashes(p) = RowHash(i))
            /\ make_hashes(p) # RowHash(i)
                => LoginMessage(sheet, e, p) = "Incorrect Password."
    /\ (ui.op = "register" /\ ui.ok) =>
        /\ RowHash(Len(Records(sheet))) = make_hashes(ui.args[3])
        /\ \A e \in Emails : Clean(e) = Clean(ui.args[2]) =>
                LoginMessage(sheet, e, ui.args[3]) = ""
    /\ ui.op = "login" =>
        /\ ui.ok <=> \E i \in DOMAIN Records(sheet) :
                        /\ Clean(RowEmail(i)) = Clean(ui.args[1])
                        /\ RowHash(i) = make_hashes(ui.args[2])
        /\ ui.ok => \E i \in DOMAIN Records(sheet) :
                        /\ Clean(RowEmail(i)) = Clean(ui.args[1])
                        /\ current_user = <<RowName(i)>>

\* C9 witness: a player registered with an e-mail written one way has logged
\* in with it written another way; a second player is registered too
C9_Witness ==
    /\ ui.op = "login"
    /\ ui.ok
    /\ Len(Records(sheet)) = 2
    /\ \E i \in DOMAIN Records(sheet) :
        /\ Clean(RowEmail(i)) = Clean(ui.args[1])
        /\ RowEmail(i) # ui.args[1]

\* C10 (as claimed): every failed login shows one and the same result, whether
\* the e-mail is registered or not.
C10_LoginFailureUniform ==
    \A e1, e2 \in Emails, p1, p2 \in Passwords :
        (LoginMessage(sheet, e1, p1) # "" /\ LoginMessage(sheet, e2, p2) # "")
            => LoginMessage(sheet, e1, p1) = LoginMessage(sheet, e2, p2)

----------------------------------------------------------------------------
(* The standings of one player's pick over every slate of distinct teams *)

PickValues == {Empty} \cup FeedTeams

InitClassifier ==
    InitWith(UNION {FeedStates(ev) : ev \in {x \in OneGame \cup TwoGames : DistinctTeams(x)}},
             {<<headers, PlayerRow(Ann, AnnEmail, <<"p">>, Alive, v, Empty)>> :
                v \in PickValues},
             {ConfigB2(StrTrue)},
             {<<Ann>>})

NextClassifier ==
    \/ PortalView(Week1, TRUE)
    \/ AdminView(TRUE)

SpecClassifier == InitClassifier /\ [][NextClassifier]_vars

\* the pick the page's i-th status was calculated for
ShownPick(i) == PickOf(sheet, Records(sheet)[i], ui.page.week)

\* C2 (as claimed): an empty pick is given the status Unknown for every slate,
\* in the Player Portal and in the admin view.
C2_EmptyPickUnknown ==
    \A i \in DOMAIN ui.page.calculated :
        ShownPick(i) = Empty => ui.page.calculated[i] = "Unknown"

\* the spec's matching of a pick and a team name (4.3)
NameMatches(pick, team) == IsSubstring(Lower(pick), Lower(team))

ExpectedOutcome(event, pick) ==
    IF event.score_0 = event.score_1 THEN "TIE"
    ELSE IF (pick = event.team_0) <=> (event.score_0 > event.score_1) THEN "SAFE"
    ELSE "ELIMINATED"

\* C3 (as claimed): over a slate of pairwise distinct team names, a pick that is
\* exactly the name of a competitor of a final game is SAFE when that competitor
\* has the higher score, TIE on equal scores, ELIMINATED when it has the lower
\* score; a pick that matches no competitor name is Unknown.
C3_ExactPickOutcome ==
    \A i \in DOMAIN ui.page.calculated :
        (DistinctTeams(feed) /\ ShownPick(i) # Empty) =>
            /\ \A g \in DOMAIN feed :
                (feed[g].state = "post"
                 /\ ShownPick(i) \in {feed[g].team_0, feed[g].team_1})
                => ui.page.calculated[i] = ExpectedOutcome(feed[g], ShownPick(i))
            /\ (\A g \in DOMAIN feed :
                    /\ ~NameMatches(ShownPick(i), feed[g].team_0)
                    /\ ~NameMatches(ShownPick(i), feed[g].team_1))
                => ui.page.calculated[i] = "Unknown"

----------------------------------------------------------------------------
(* The score feed as the games go on, read by the admin dashboard *)

InitFeed ==
    InitWith({<<>>, <<Event(Duke, Kansas), Event(KansasSt, MiamiOH)>>},
             {BlankSheet}, {ConfigB2(StrTrue)}, {NoUser})

NextFeed ==
    \/ \E i \in 1..2 : FeedKickoff(i)
    \/ \E i \in 1..2, side \in {0, 1} : FeedScore(i, side)
    \/ \E i \in 1..2 : FeedFinal(i)
    \/ \E i \in 1..2 : FeedPostponed(i)
    \/ FeedOutage
    \/ AdminView(TRUE)
    \/ ExpireScores(NoWeek)

SpecFeed == InitFeed /\ [][NextFeed]_vars

\* Winner of a record agrees with the scores the record shows
WinnerByScore(game) ==
    /\ game.Winner = Tie <=> game.Score[1] = game.Score[2]
    /\ game.Score[1] > game.Score[2] => game.Winner = game.TeamA
    /\ game.Score[2] > game.Score[1] => game.Winner = game.TeamB

\* C5: in every record get_sports_data returns, from the feed or as fallback,
\* Winner is "TBD" iff the game's state is not "post"; when it is "post",
\* Winner is "Tie" iff the scores are equal and otherwise the name of the side
\* with the strictly higher score.
C5_WinnerNormalised ==
    LET games == get_sports_data(feed, feedOk)
    IN  /\ IF feedOk /\ feed # <<>>
           THEN /\ Len(games) = Len(feed)
                /\ \A i \in DOMAIN feed :
                    /\ games[i].Winner = TBD <=> feed[i].state # "post"
                    /\ feed[i].state = "post" =>
                        /\ games[i].Winner = Tie <=> feed[i].score_0 = feed[i].score_1
                        /\ feed[i].score_0 > feed[i].score_1
                            => games[i].Winner = feed[i].team_0
                        /\ feed[i].score_1 > feed[i].score_0
                            => games[i].Winner = feed[i].team_1
           ELSE \A i \in DOMAIN games : games[i].Winner = TBD /\ ~games[i].Locked
        /\ \A k \in WeekKeys : scores_cache[k] # NoData =>
            \A i \in DOMAIN scores_cache[k][1] :
                LET game == scores_cache[k][1][i]
                IN  game.Winner # TBD => game.Locked /\ WinnerByScore(game)

\* C5 witness: the dashboard has read a slate with a tied final game and a
\* final game the second side won, and the feed still stands so
C5_Witness ==
    /\ feedOk
    /\ scores_cache[NoWeek] = <<get_sports_data(feed, feedOk)>>
    /\ \E i, j \in DOMAIN feed :
        /\ feed[i].state = "post" /\ feed[i].score_0 = feed[i].score_1
        /\ feed[j].state = "post" /\ feed[j].score_1 > feed[j].score_0

----------------------------------------------------------------------------
(* The pick form over every pick history and every slate of lock states *)

\* Bob's row comes first; Ann, whose picks vary, is the one logged in
InitResolver ==
    InitWith({f \in UNION {FeedStates(ev) : ev \in OneGame \cup TwoGames} :
                \A i \in DOMAIN f : f[i].score_0 = 0 /\ f[i].score_1 = 0},
             {<<headers,
                PlayerRow(Bob, BobEmail, <<"q">>, Alive, Duke, Kansas),
                PlayerRow(Ann, AnnEmail, <<"p">>, Alive, v1, v2)>> :
                v1 \in {Empty, Duke}, v2 \in {Empty, Kansas}},
             {ConfigB2(StrFalse)},
             {<<Ann>>})

NextResolver == \E w \in {Week1, Week2} : PortalView(w, TRUE)

SpecResolver == InitResolver /\ [][NextResolver]_vars

\* the slate the page shown was computed from
ShownGames == scores_cache[week_num(ui.page.week)][1]

\* the row of the player the page was rendered for
ShownRow == user_row(sheet, current_user[1])

DistinctNames(games) ==
    Cardinality({games[i].TeamA : i \in DOMAIN games}
                \cup {games[i].TeamB : i \in DOMAIN games}) = 2 * Len(games)

NoPastPickOffered ==
    \A t \in ui.page.options, c \in pick_cols(sheet) :
        (c # ui.page.week /\ Cell(sheet, ShownRow, c) # Empty)
            => t # Cell(sheet, ShownRow, c)

NoLockedTeamOffered ==
    \A t \in ui.page.options, i \in DOMAIN ShownGames :
        ShownGames[i].Locked => t \notin {ShownGames[i].TeamA, ShownGames[i].TeamB}

\* C1 (as claimed): for every pick history and every slate, the teams offered in
\* the pick form hold no non-empty pick of the player in another period and no
\* competitor of a game record with Locked = true.
C1_Original ==
    ui.page.view = "portal" => NoPastPickOffered /\ NoLockedTeamOffered

\* What the pick form does keep (C1): the teams offered hold no non-empty pick
\* of the player in another period, and each is a competitor of some game
\* record with Locked = false; over a slate of pairwise distinct team names
\* none is a competitor of a game record with Locked = true.
C1_Eligibility ==
    ui.page.view = "portal" =>
        /\ NoPastPickOffered
        /\ \A t \in ui.page.options : \E i \in DOMAIN ShownGames :
            ~ShownGames[i].Locked /\ t \in {ShownGames[i].TeamA, ShownGames[i].TeamB}
        /\ DistinctNames(ShownGames) => NoLockedTeamOffered

\* C1, a case C1_Eligibility covers: over a slate of distinct names with a locked and an open game,
\* a team is offered while a competitor of the open game is withheld as a past
\* pick
C1_Witness ==
    /\ ui.page.view = "portal"
    /\ DistinctNames(ShownGames)
    /\ ui.page.options # {}
    /\ \E i, j \in DOMAIN ShownGames :
        /\ ShownGames[i].Locked
        /\ ~ShownGames[j].Locked
        /\ \E c \in pick_cols(sheet) :
            /\ c # ui.page.week
            /\ Cell(sheet, ShownRow, c) \in {ShownGames[j].TeamA, ShownGames[j].TeamB}

----------------------------------------------------------------------------
(* The standings board of a pool of three, hidden and revealed *)

Cat == <<"C", "a", "t">>
CatEmail == <<"c", "@", "x">>

InitBoard ==
    InitWith({<<[Event(Duke, Kansas) EXCEPT !.state = "post", !.description = "Final",
                                            !.score_0 = 1]>>},
             {<<headers,
                PlayerRow(Ann, AnnEmail, <<"p">>, s1, v1, KansasSt),
                PlayerRow(Bob, BobEmail, <<"q">>, s2, v2, Empty),
                PlayerRow(Cat, CatEmail, <<"p">>, s3, v3, Empty)>> :
                s1 \in {Alive, Eliminated}, s2 \in {Alive, Eliminated},
                s3 \in {Alive, Eliminated},
                v1 \in {Empty, Duke, Kansas}, v2 \in {Empty, Duke, Kansas},
                v3 \in {Empty, Duke, Kansas}},
             {NoConfig, ConfigB2(Empty), ConfigB2(<<"T", "R", "U", "E">>)},
             {<<Ann>>})

NextBoard ==
    \/ \E w \in {Week1, Week2}, readable \in BOOLEAN : PortalView(w, readable)
    \/ \E readable \in BOOLEAN : AdminView(readable)
    \/ \E readable \in BOOLEAN : ToggleReveal(readable)

SpecBoard == InitBoard /\ [][NextBoard]_vars

\* the data the page shown was computed from
ShownData == data_cache[1]

\* C4: whenever the VisibilityFlag read by get_reveal_status is false, the
\* Player Portal shows the hidden marker and no pick distribution, no player's
\* pick and no classification, whatever the players and the slate; the admin
\* view shows every player with a calculated status whatever the flag.
C4_VisibilityGate ==
    /\ (ui.page.view = "portal" /\ ~get_reveal_status(config, ui.page.readable)) =>
        /\ ui.page.hidden
        /\ ui.page.breakdown = {}
        /\ ui.page.board = <<>>
        /\ ui.page.calculated = <<>>
    /\ (ui.page.view = "admin" /\ Records(ShownData) # <<>>) =>
        /\ ~ui.page.hidden
        /\ Len(ui.page.board) = Len(Records(ShownData))
        /\ Len(ui.page.calculated) = Len(Records(ShownData))

\* C4 witness: the flag reads false, Alive players hold picks, and the portal
\* shows the hidden marker
C4_Witness ==
    /\ ui.page.view = "portal"
    /\ config = ConfigB2(StrFalse)
    /\ ui.page.readable
    /\ ui.page.hidden
    /\ Breakdown(sheet, ui.page.week) # {}

AliveWith(grid, week, v) ==
    {i \in DOMAIN Records(grid) :
        /\ Cell(grid, Records(grid)[i], ColStatus) = Alive
        /\ Cell(grid, Records(grid)[i], week) = v}

\* C8: when picks are revealed, the breakdown of the selected period maps each
\* distinct non-empty pick value to the number of Alive players whose pick for
\* that period equals it; players not Alive and empty picks count nowhere.
C8_PickDistribution ==
    (ui.page.view = "portal" /\ ~ui.page.hidden) =>
        /\ \A v \in PickValues \ {Empty} :
            LET n == Cardinality(AliveWith(ShownData, ui.page.week, v))
            IN  IF n > 0 THEN <<v, n>> \in ui.page.breakdown
                ELSE \A m \in 0..3 : <<v, m>> \notin ui.page.breakdown
        /\ \A e \in ui.page.breakdown :
            /\ e[1] # Empty
            /\ e[2] = Cardinality(AliveWith(ShownData, ui.page.week, e[1]))

\* C8 witness: two Alive players on one team and one on another give the counts
\* 2 and 1
C8_Witness ==
    /\ ui.page.view = "portal"
    /\ ~ui.page.hidden
    /\ ui.page.breakdown = {<<Duke, 2>>, <<Kansas, 1>>}
    /\ \A i \in DOMAIN Records(sheet) : Cell(sheet, Records(sheet)[i], ColStatus) = Alive

\* a revealed breakdown that leaves out a player who is not Alive and an empty pick
C8_WitnessExcluded ==
    /\ ui.page.view = "portal"
    /\ ~ui.page.hidden
    /\ ui.page.breakdown = {<<Duke, 1>>}
    /\ \E i, j \in DOMAIN Records(sheet) :
        /\ Cell(sheet, Records(sheet)[i], ColStatus) = Eliminated
        /\ Cell(sheet, Records(sheet)[i], ui.page.week) = Duke
        /\ Cell(sheet, Records(sheet)[j], ColStatus) = Alive
        /\ Cell(sheet, Records(sheet)[j], ui.page.week) = Empty

----------------------------------------------------------------------------
(* The visibility flag from a spreadsheet with no pool tab and no Config tab *)

InitFlag == InitWith({<<Event(Duke, Kansas)>>}, {<<>>}, {NoConfig}, {NoUser})

NextFlag ==
    \/ \E readable \in BOOLEAN : CreateTab(readable)
    \/ \E n \in Names, e \in {AnnEmail, BobEmail} : Register(n, e, <<"p">>)
    \/ \E e \in {AnnEmail, BobEmail}, p \in Passwords, readable \in BOOLEAN :
            Login(e, p, readable)
    \/ Logout
    \/ \E readable \in BOOLEAN : PortalView(Week1, readable)
    \/ \E t \in {Empty, Duke}, readable \in BOOLEAN : SubmitPick(Week1, t, readable)
    \/ \E readable \in BOOLEAN : AdminView(readable)
    \/ \E readable \in BOOLEAN : ToggleReveal(readable)
    \/ \E readable \in BOOLEAN : ForceReload(readable)

SpecFlag == InitFlag /\ [][NextFlag]_vars

\* the flag as a read that does not raise returns it
FlagValue(cfg) == get_reveal_status(cfg, TRUE)

\* C11: get_reveal_status returns false while the setting is absent or the read
\* raises, and before any Reveal; a Hide/Reveal toggle leaves the flag at the
\* value it wrote, and every other operation (login, registration, pick
\* submission, viewing standings, the other admin operations) leaves the flag's
\* value as it was, so the flag always equals the last toggle's value.
C11_FlagEvolution ==
    /\ ~config.exists /\ ~FlagValue(config)
    /\ [][/\ ~get_reveal_status(config', FALSE)
          /\ ~config'.exists => ~FlagValue(config')
          /\ IF \E readable \in BOOLEAN : ToggleReveal(readable)
             THEN /\ ui'.args[1] \in {StrTrue, StrFalse}
                  /\ FlagValue(config') <=> (ui'.args[1] = StrTrue)
             ELSE FlagValue(config') <=> FlagValue(config)]_vars

\* C11 witness: after a Reveal a player has saved a pick and the portal shows
\* the board, the flag still reading true
C11_Witness ==
    /\ ui.op = "pick"
    /\ ui.ok
    /\ ~ui.page.hidden
    /\ config = ConfigB2(StrTrue)
    /\ FlagValue(config)

\* the flag was hidden again after a Reveal, with a pick saved in between
C11_WitnessHidden ==
    /\ ui.op = "toggle"
    /\ ui.args = <<StrFalse>>
    /\ ~FlagValue(config)
    /\ \E i \in DOMAIN Records(sheet) : Cell(sheet, Records(sheet)[i], Week1) = Duke

----------------------------------------------------------------------------
(* Picks saved through the pick form, from a freshly created pool tab *)

\* names typed into the registration form; one of them is also the display
\* name of a team
PoolNames == {Ann, Duke}

InitPicks ==
    InitWith({<<Event(Duke, Kansas)>>}, {BlankSheet}, {ConfigB2(StrFalse)}, {NoUser})

NextPicks ==
    \/ \E n \in PoolNames, e \in {AnnEmail, BobEmail} : Register(n, e, <<"p">>)
    \/ \E e \in {AnnEmail, BobEmail} : Login(e, <<"p">>, TRUE)
    \/ Logout
    \/ \E w \in {Week1, Week2} : PortalView(w, TRUE)
    \/ \E w \in {Week1, Week2}, t \in {Empty, Duke, Kansas} : SubmitPick(w, t, TRUE)

SpecPicks == InitPicks /\ [][NextPicks]_vars

NoRepeatPicks(grid) ==
    \A i \in DOMAIN Records(grid) :
        \A c, d \in pick_cols(grid) :
            (c # d /\ Cell(grid, Records(grid)[i], c) # Empty)
                => Cell(grid, Records(grid)[i], c) # Cell(grid, Records(grid)[i], d)

\* C12 (as claimed): in every state reached by pick submissions through the
\* pick form, resubmissions included, no player has the same team stored as
\* the pick of two different periods.
C12_NoRepeatPicks == NoRepeatPicks(sheet)

\* the worksheet row of the first data row named name
NameRow(grid, name) ==
    1 + CHOOSE i \in RowsNamed(grid, name) : \A j \in RowsNamed(grid, name) : i <= j

\* What the pick form does keep (C12): a submission by a player whose name is
\* first found, rows first, in the Name cell of that player's row adds no
\* repeat.
C12_NoRepeatKeyed ==
    [][\A w \in {Week1, Week2}, t \in {Duke, Kansas} :
        (/\ SubmitPick(w, t, TRUE)
         /\ NoRepeatPicks(sheet)
         /\ Find(sheet, current_user[1]) = <<NameRow(sheet, current_user[1]), 1>>)
        => NoRepeatPicks(sheet')]_vars

\* C12, the case C12_NoRepeatKeyed covers: a player holding picks in both
\* periods has just saved a pick again for one of them
C12_Witness ==
    /\ ui.op = "pick"
    /\ ui.ok
    /\ NoRepeatPicks(sheet)
    /\ \E i \in DOMAIN Records(sheet) :
        /\ RowName(i) = current_user[1]
        /\ Cell(sheet, Records(sheet)[i], Week1) # Empty
        /\ Cell(sheet, Records(sheet)[i], Week2) # Empty

----------------------------------------------------------------------------
(* Every way a pick is written: the pick form and the admin's Force Update *)

\* Ann and a player registered under the name Duke, no pick saved yet; one of
\* them is logged in
InitSave ==
    InitWith({<<Event(Duke, Kansas)>>},
             {<<headers,
                PlayerRow(Ann, AnnEmail, <<"p">>, Alive, Empty, Empty),
                PlayerRow(Duke, BobEmail, <<"p">>, Alive, Empty, Empty)>>},
             {ConfigB2(StrFalse)}, {<<Ann>>, <<Duke>>})

NextSave ==
    \/ \E w \in {Week1, Week2}, t \in {Empty, Duke, Kansas} : SubmitPick(w, t, TRUE)
    \/ \E p_name \in PoolNames, p_team \in {Duke, Kansas} :
            ForceUpdate(p_name, Week1, p_team, TRUE)

SpecSave == InitSave /\ [][NextSave]_vars

\* the one cell a save for (player_name, week_col) is to set, the rest as it was
OneCellSet(grid, player_name, week_col, team_pick) ==
    [r \in DOMAIN grid |->
        [c \in DOMAIN grid[r] |->
            IF r = NameRow(grid, player_name) /\ c = ColIdx(grid, week_col)
            THEN team_pick ELSE grid[r][c]]]

SaveFrame(grid, player_name, week_col, team_pick) ==
    LET saved == save_pick_to_sheet(grid, player_name, week_col, team_pick)
    IN  /\ saved[1] =>
            /\ RowsNamed(grid, player_name) # {}
            /\ saved[2] = OneCellSet(grid, player_name, week_col, team_pick)
            /\ save_pick_to_sheet(saved[2], player_name, week_col, team_pick) = saved
        /\ ~saved[1] => saved[2] = grid

\* C15 (as claimed): a successful save_pick_to_sheet(sheet, player_name, period,
\* team) sets exactly the cell in that player's row and that period's column and
\* leaves every other cell as it was; repeating the call changes nothing more;
\* a failing call returns False and changes nothing.  Stated of every save the
\* pick form and the Force Update form make.
C15_SaveFrame ==
    [][/\ \A w \in {Week1, Week2}, t \in {Duke, Kansas} :
            SubmitPick(w, t, TRUE) =>
                /\ SaveFrame(sheet, current_user[1], w, t)
                /\ sheet' = save_pick_to_sheet(sheet, current_user[1], w, t)[2]
       /\ \A n \in PoolNames, w \in {Week1, Week2}, t \in {Duke, Kansas} :
            ForceUpdate(n, w, t, TRUE) =>
                /\ SaveFrame(sheet, n, w, t)
                /\ sheet' = save_pick_to_sheet(sheet, n, w, t)[2]]_vars

\* What save_pick_to_sheet does keep (C15): a save succeeds iff some cell holds
\* player_name and some cell holds the period label, and then sets exactly the
\* cell in the row of the first cell holding player_name and the column of the
\* first cell holding the label; a failing call changes nothing; when that
\* first cell is the Name cell of the player's row, the cell set is the
\* player's own and saving again changes nothing.
C15_SaveFirstFound ==
    \A n \in PoolNames \cup {Bob}, w \in {Week1, Week2, <<"W">>}, t \in {Duke, Kansas} :
        LET saved == save_pick_to_sheet(sheet, n, w, t)
        IN  /\ saved[1] <=> (Find(sheet, n) # <<0, 0>> /\ Find(sheet, w) # <<0, 0>>)
            /\ saved[1] =>
                /\ saved[2] = UpdateCell(sheet, Find(sheet, n)[1], Find(sheet, w)[2], t)
                /\ Cardinality({rc \in (DOMAIN sheet) \X (1..Len(headers)) :
                                    saved[2][rc[1]][rc[2]] # sheet[rc[1]][rc[2]]}) <= 1
            /\ (saved[1] /\ Find(sheet, n) = <<NameRow(sheet, n), 1>>) =>
                /\ saved[2] = OneCellSet(sheet, n, w, t)
                /\ save_pick_to_sheet(saved[2], n, w, t) = saved
            /\ ~saved[1] => saved[2] = sheet

\* C15, a case C15_SaveFirstFound covers: a pick was saved over another one in
\* a pool of two players who both hold picks
C15_Witness ==
    /\ ui.op \in {"pick", "force"}
    /\ ui.ok
    /\ Len(Records(sheet)) = 2
    /\ \A i \in DOMAIN Records(sheet) :
        \E c \in {Week1, Week2} : Cell(sheet, Records(sheet)[i], c) # Empty

----------------------------------------------------------------------------
(* Picks saved while the games go on *)

InitLock ==
    InitWith({<<Event(Duke, Kansas), Event(KansasSt, MiamiOH)>>},
             {<<headers, PlayerRow(Ann, AnnEmail, <<"p">>, Alive, Empty, Empty)>>},
             {ConfigB2(StrFalse)}, {<<Ann>>})

NextLock ==
    \/ \E i \in 1..2 : FeedKickoff(i)
    \/ \E i \in 1..2 : FeedFinal(i)
    \/ PortalView(Week1, TRUE)
    \/ \E t \in {Empty, Duke, KansasSt} : SubmitPick(Week1, t, TRUE)
    \/ ExpireScores(week_num(Week1))
    \/ ExpireData

SpecLock == InitLock /\ [][NextLock]_vars

\* no game of team in the feed has started
NotStarted(team) ==
    \A g \in DOMAIN feed :
        team \in {feed[g].team_0, feed[g].team_1} => feed[g].state \notin {"in", "post"}

\* C13 (as claimed): whenever the pick form saves a pick, the picked team's game
\* is neither in progress nor final in the score feed at that moment, for every
\* interleaving of feed changes, cached slate reads and submissions.
C13_LockoutAtSave ==
    [][\A t \in {Duke, KansasSt} :
        (SubmitPick(Week1, t, TRUE) /\ ui'.ok) => NotStarted(t)]_vars

\* What the pick form does keep (C13): the team saved is a competitor of a game
\* that is not Locked in the slate the run read, which the cache may have held
\* for up to 300 s; when the run fetched the slate itself, no game of the team
\* had started in the feed.
C13_LockoutInSlateRead ==
    [][\A t \in {Duke, KansasSt} :
        (SubmitPick(Week1, t, TRUE) /\ ui'.ok) =>
            LET games == cached_scores(scores_cache, week_num(Week1))
            IN  /\ \E i \in DOMAIN games :
                    ~games[i].Locked /\ t \in {games[i].TeamA, games[i].TeamB}
                /\ scores_cache[week_num(Week1)] = NoData => NotStarted(t)]_vars

\* C13, the case C13_LockoutInSlateRead covers: a pick was saved, and shown as
\* saved, while the other game of the slate was in progress
C13_Witness ==
    /\ ui.op = "pick"
    /\ ui.ok
    /\ NotStarted(ui.args[2])
    /\ \E g \in DOMAIN feed : feed[g].state = "in"
    /\ scores_cache[week_num(ui.page.week)] # NoData
    /\ \E i \in DOMAIN ShownGames : ShownGames[i].Locked

----------------------------------------------------------------------------
(* The Pending status, over the slates and picks of SpecClassifier *)

\* the slate the page's statuses were calculated from
PageGames ==
    IF ui.page.view = "admin" THEN scores_cache[NoWeek][1] ELSE ShownGames

\* the games the classifier's search finds for a pick
Matched(pick, games) ==
    {g \in DOMAIN games :
        RegexSearch(pick, games[g].TeamA) \/ RegexSearch(pick, games[g].TeamB)}

\* match.iloc[0]
FirstMatched(pick, games) ==
    games[CHOOSE g \in Matched(pick, games) : \A h \in Matched(pick, games) : g <= h]

\* C14 (as claimed): a non-empty pick that matches a game record is Pending iff
\* that game is not final (its state is not "post", Winner is "TBD"); a matched
\* final game is never Pending, whatever its status description.
C14_PendingRule ==
    \A i \in DOMAIN ui.page.calculated :
        LET pick == Strip(ShownPick(i))
        IN  (pick # Empty /\ Matched(pick, PageGames) # {}) =>
                (ui.page.calculated[i] = "Pending"
                    <=> FirstMatched(pick, PageGames).Winner = TBD)

\* What the classifier does keep (C14): a matched pick is Pending iff the
\* matched game's status description is not "Final"; a game that is not final
\* is always Pending, and a final game described as "Final" never is.
C14_PendingByDescription ==
    \A i \in DOMAIN ui.page.calculated :
        LET pick == Strip(ShownPick(i))
        IN  (pick # Empty /\ Matched(pick, PageGames) # {}) =>
                LET game == FirstMatched(pick, PageGames)
                IN  /\ ui.page.calculated[i] = "Pending" <=> game.Status # "Final"
                    /\ game.Winner = TBD => ui.page.calculated[i] = "Pending"
                    /\ (game.Winner # TBD /\ game.Status = "Final")
                        => ui.page.calculated[i] \in {"SAFE", "TIE", "ELIMINATED"}

\* C14, a case C14_PendingByDescription covers: the pick's game is in progress
\* and shown Pending while the other game of the slate is final
C14_Witness ==
    /\ ui.page.view = "portal"
    /\ Len(ui.page.calculated) = 1
    /\ ShownPick(1) = Duke
    /\ ui.page.calculated[1] = "Pending"
    /\ \E g, h \in DOMAIN feed :
        /\ Duke \in {feed[g].team_0, feed[g].team_1}
        /\ feed[g].state = "in"
        /\ feed[h].state = "post" /\ feed[h].description = "Final"

----------------------------------------------------------------------------
(* The pick form over slates that hold the bye placeholder on either side *)

\* schedules of one or two events whose competitors may be named "Bye"
ByeSchedules ==
    LET pairs == {p \in {Duke, Kansas, Bye} \X {Duke, Kansas, Bye} : p[1] # p[2]}
        events == {Event(p[1], p[2]) : p \in pairs}
    IN  {<<m>> : m \in events} \cup {<<m, n>> : m, n \in events}

InitBye ==
    InitWith(ByeSchedules,
             {<<headers, PlayerRow(Ann, AnnEmail, <<"p">>, Alive, Empty, v)>> :
                v \in {Empty, Kansas}},
             {ConfigB2(StrFalse)}, {<<Ann>>})

NextBye ==
    \/ \E i \in 1..2 : FeedKickoff(i)
    \/ FeedOutage
    \/ PortalView(Week1, TRUE)
    \/ ExpireScores(week_num(Week1))

SpecBye == InitBye /\ [][NextBye]_vars

\* C16 (as claimed): for every slate, the teams offered in the pick form never
\* hold the placeholder "Bye", whether it is Team A or Team B of a game record.
C16_ByeNeverOffered ==
    ui.page.view = "portal" => Bye \notin ui.page.options

\* What the pick form does keep (C16): "Bye" is offered exactly when it is
\* Team A of a game record that is not Locked; as Team B, and so over the
\* fallback slate, it never is.
C16_ByeAsTeamB ==
    (ui.page.view = "portal" /\ scores_cache[week_num(ui.page.week)] # NoData) =>
        /\ Bye \in ui.page.options <=>
                \E i \in DOMAIN ShownGames :
                    ShownGames[i].TeamA = Bye /\ ~ShownGames[i].Locked
        /\ ShownGames = dummy_games =>
                ui.page.options =
                    {FallbackTeams[i] : i \in DOMAIN FallbackTeams}
                        \ past_picks(sheet, ShownRow, ui.page.week)

\* C16, the case C16_ByeAsTeamB covers: the fallback slate was read during a
\* feed outage and its teams are offered without the player's past pick and
\* without "Bye"
C16_Witness ==
    /\ ui.page.view = "portal"
    /\ ~feedOk
    /\ scores_cache[week_num(ui.page.week)] # NoData
    /\ ShownGames = dummy_games
    /\ ui.page.options = {Duke, UNC, Kentucky, UConn, Gonzaga}

====
